---- MODULE Spec2Model ----
(***************************************************************************)
(* Pump.fun WebSocket relay: one upstream connector task                   *)
(* (solana_client.rs), the event normalizer (event_parser.rs), a tokio     *)
(* broadcast channel created in main.rs, and the accept loop with one      *)
(* delivery task per client (ws_server.rs).                                *)
(***************************************************************************)
EXTENDS Integers, Sequences, FiniteSets, TLC

\* ------------------------------------------------------------------ bounds
\* capacity of the broadcast channel (main.rs:21 uses 1000)
HubCapacity == 2
\* number of frames the upstream delivers during a run
MaxFrames == 3
\* number of connect attempts the connector makes during a run
MaxConnects == 2
\* number of connections the accept loop accepts during a run
MaxAccepts == 1
\* the same, in the fan-out specification
MaxFanAccepts == 2

\* --------------------------------------------------------------- constants
\* the pump.fun program id (solana_client.rs:25, event_parser.rs:49)
PUMP_FUN_PROGRAM_ID == "6EF8rrecthR5Dkzon8Nwu78hRvfCKubJ14M5uBEwF6P"
\* seconds slept after a failed connect (solana_client.rs:66)
RECONNECT_DELAY_SECS == 5
\* index used by the slices pubkey[..8] (event_parser.rs:59, 65)
SIG_PREFIX_LEN == 8

\* ------------------------------------------------------------------ strings
\* A Rust string is a sequence of characters; a character occupies one byte
\* unless it is outside ASCII.
CharWidth(c) == IF c = "é" THEN 2 ELSE 1

RECURSIVE ByteLen(_)
ByteLen(s) == IF s = <<>> THEN 0 ELSE CharWidth(Head(s)) + ByteLen(Tail(s))

\* str::is_char_boundary(n)
IsCharBoundary(s, n) ==
    \E k \in 0..Len(s) : ByteLen(SubSeq(s, 1, k)) = n

\* &s[..n]: the characters in the first n bytes; the slice panics when n is
\* past the end or inside a character.
SlicePanics(s, n) == ~IsCharBoundary(s, n)

SliceTo(s, n) ==
    LET k == CHOOSE j \in 0..Len(s) : ByteLen(SubSeq(s, 1, j)) = n
    IN  SubSeq(s, 1, k)

Digit(d) ==
    CASE d = 0 -> "0" [] d = 1 -> "1" [] d = 2 -> "2" [] d = 3 -> "3"
      [] d = 4 -> "4" [] d = 5 -> "5" [] d = 6 -> "6" [] d = 7 -> "7"
      [] d = 8 -> "8" [] d = 9 -> "9"

\* u64 Display: decimal digits, most significant first
RECURSIVE U64ToString(_)
U64ToString(n) ==
    IF n < 10 THEN <<Digit(n)>> ELSE U64ToString(n \div 10) \o <<Digit(n % 10)>>

\* ------------------------------------------------------------- JSON frames
\* An upstream text frame.  json says whether serde_json::from_str accepts
\* the text; the other fields are the parts of the document parse_event
\* looks at, each an option (<<>> is absent or of another JSON type).
Frame(json, method, pubkey, slot, account) ==
    [json |-> json, method |-> method, pubkey |-> pubkey, slot |-> slot,
     account |-> account]

Key12    == <<"A","B","C","D","E","F","G","H","1","2","3","4">>
KeyShort == <<"A","B","C">>

\* A JSON value as Value::as_str sees it: a string, or a value of another type
JString(s) == [str |-> <<s>>]
JOther     == [str |-> <<>>]

as_str(v) == v.str

\* the "account" object: owner is <<>> when the object has no "owner" key
Account(owner) == [owner |-> owner]

FrameNotJson  == Frame(FALSE, <<>>, <<>>, <<>>, <<>>)
FrameOther    == Frame(TRUE, <<"accountNotification">>, <<Key12>>, <<100>>,
                       <<Account(<<JString(PUMP_FUN_PROGRAM_ID)>>)>>)
FrameValid    == Frame(TRUE, <<"programNotification">>, <<Key12>>, <<100>>,
                       <<Account(<<JString(PUMP_FUN_PROGRAM_ID)>>)>>)
FrameShortKey == Frame(TRUE, <<"programNotification">>, <<KeyShort>>, <<100>>,
                       <<Account(<<JString(PUMP_FUN_PROGRAM_ID)>>)>>)

\* the text frames the upstream sends in the relay specification
UpstreamTexts == {FrameNotJson, FrameValid, FrameShortKey}

\* -------------------------------------------------------------- Normalizer
\* Results of parse_event: None, Some(text), or a panic of the calling task.
None     == [tag |-> "none"]
Panic    == [tag |-> "panic"]
Some(v)  == [tag |-> "some", val |-> v]

\* A String placed on the hub: serialized TokenEvent or raw frame text.
EventText(ev) == [kind |-> "event", body |-> ev]
RawText(fr)   == [kind |-> "raw", body |-> fr]

TokenDetails(pubkey) ==
    [mint_address |-> pubkey,
     name         |-> <<"T","o","k","e","n","_">> \o SliceTo(pubkey, SIG_PREFIX_LEN),
     symbol       |-> "MTK",
     creator      |-> "DEF456...",
     supply       |-> "1000000000",
     decimals     |-> 6]

PumpData ==
    [bonding_curve          |-> "GHI789...",
     virtual_sol_reserves   |-> "30000000000",
     virtual_token_reserves |-> "1073000000000000"]

extract_pump_fun_account_data(pubkey, account, slot, ts) ==
    IF SlicePanics(pubkey, SIG_PREFIX_LEN) THEN Panic
    ELSE Some(EventText(
           [event_type            |-> "token_created",
            timestamp             |-> ts,
            transaction_signature |-> SliceTo(pubkey, SIG_PREFIX_LEN) \o <<"_">>
                                        \o U64ToString(slot),
            token                 |-> TokenDetails(pubkey),
            pump_data             |-> PumpData]))

\* Value::as_u64 of an option holding an integer
AsU64(slot) == IF slot # <<>> /\ slot[1] >= 0 THEN slot ELSE <<>>

\* account is a serde_json::Map: account["owner"] panics when the key is
\* missing, while indexing a Value by a missing key gives Null
parse_event(raw_message, ts) ==
    IF ~raw_message.json THEN None
    ELSE IF raw_message.method # <<"programNotification">> THEN None
    ELSE IF raw_message.pubkey = <<>> THEN None
    ELSE IF AsU64(raw_message.slot) = <<>> THEN None
    ELSE IF raw_message.account = <<>> THEN None
    ELSE IF raw_message.account[1].owner = <<>> THEN Panic
    ELSE IF as_str(raw_message.account[1].owner[1]) = <<>> THEN None
    ELSE IF as_str(raw_message.account[1].owner[1])[1] = PUMP_FUN_PROGRAM_ID
         THEN extract_pump_fun_account_data(raw_message.pubkey[1],
                  raw_message.account[1], raw_message.slot[1], ts)
    ELSE None

\* ------------------------------------------------------- broadcast channel
\* tokio::sync::broadcast: a ring of HubCapacity slots, each holding the
\* position and value last written to it; tail is the next position to
\* write; rx_cnt and num_tx count the live receivers and senders.
Slot(pos, val) == [pos |-> pos, val |-> val]

SlotIdx(pos) == (pos % HubCapacity) + 1

\* broadcast::channel(1000) at main.rs:21; the receiver half is discarded
channel ==
    [tail    |-> 0,
     buffer  |-> [i \in 1..HubCapacity |-> Slot(i - 1 - HubCapacity, <<>>)],
     rx_cnt  |-> 0,
     num_tx  |-> 2,
     closed  |-> FALSE]

\* Sender::send: fails, storing nothing, when there is no receiver
send(h, value) ==
    IF h.rx_cnt = 0 THEN h
    ELSE [h EXCEPT !.buffer[SlotIdx(h.tail)] = Slot(h.tail, <<value>>),
                   !.tail = h.tail + 1]

\* a receiver positioned at the oldest buffered message instead
resubscribe_oldest(h) == IF h.tail > HubCapacity THEN h.tail - HubCapacity ELSE 0

\* Sender::subscribe / Receiver::resubscribe: a receiver positioned at tail
resubscribe(h) == h.tail

add_rx(h) == [h EXCEPT !.rx_cnt = h.rx_cnt + 1]

\* a receiver whose drop takes the buffered messages with it
drop_rx_flush(h) ==
    [h EXCEPT !.rx_cnt = h.rx_cnt - 1,
              !.buffer = [i \in 1..HubCapacity |-> Slot(i - 1 - HubCapacity, <<>>)]]

\* Receiver::drop: one receiver less, the ring as it was
drop_rx(h) == [h EXCEPT !.rx_cnt = h.rx_cnt - 1]

drop_tx(h) == [h EXCEPT !.num_tx = h.num_tx - 1,
                        !.closed = (h.num_tx = 1)]

\* recv that returns the value at the cursor without advancing the cursor
recv_stuck(h, next) ==
    LET slot == h.buffer[SlotIdx(next)]
        oldest == h.tail - HubCapacity
    IN  IF slot.pos = next
          THEN [tag |-> "ok", pos |-> next, val |-> slot.val[1], next |-> next]
        ELSE IF slot.pos + HubCapacity = next
          THEN [tag |-> IF h.closed THEN "closed" ELSE "empty",
                pos |-> next, val |-> <<>>, next |-> next]
        ELSE [tag |-> "lagged", pos |-> next, val |-> <<>>, next |-> oldest]

\* Receiver::recv for a receiver whose cursor is next: the value at the
\* cursor, Empty (the caller keeps waiting), Closed, or Lagged with the
\* cursor moved to the oldest buffered position.
recv(h, next) ==
    LET slot == h.buffer[SlotIdx(next)]
        oldest == h.tail - HubCapacity
    IN  IF slot.pos = next
          THEN [tag |-> "ok", pos |-> next, val |-> slot.val[1], next |-> next + 1]
        ELSE IF slot.pos + HubCapacity = next
          THEN [tag |-> IF h.closed THEN "closed" ELSE "empty",
                pos |-> next, val |-> <<>>, next |-> next]
        ELSE [tag |-> "lagged", pos |-> next, val |-> <<>>, next |-> oldest]

\* ------------------------------------------------------------------- state
VARIABLES
    mainPc,            \* main: "wait", "join", "done"
    connPc,            \* solana_event_listener: "connect", "sleep", "subscribe",
                       \*   "read", "frame", "panicked", "cancelled"
    connAbort,         \* solana_handle.abort() has been called
    txt,               \* the text frame being handled (option)
    liveUpstream,      \* upstream connections the connector holds open
    outbound,          \* frames the connector wrote on the current connection
    attempts,          \* calls of connect_async so far
    lastFailure,       \* what sent the connector back to the connect step
    waited,            \* seconds slept since lastFailure
    framesIn,          \* frames, read errors and stream ends taken from upstream
    textFrames,        \* text frames taken from upstream
    sendLog,           \* calls of sender.send, in order
    subscribedConns,   \* connections whose subscription request was sent
    srvPc,             \* start_ws_server: "spawned", "bind", "accept",
                       \*   "returned", "cancelled"
    srvAbort,          \* ws_handle.abort() has been called
    hub,               \* the broadcast channel
    CONNECTION_COUNT,  \* the static AtomicUsize
    clients            \* one record per accepted connection, in accept order

connVars == <<connPc, txt, liveUpstream, outbound, attempts, lastFailure,
              waited, framesIn, textFrames, sendLog, subscribedConns>>

vars == <<mainPc, connPc, connAbort, txt, liveUpstream, outbound, attempts,
          lastFailure, waited, framesIn, textFrames, sendLog, subscribedConns,
          srvPc, srvAbort, hub, CONNECTION_COUNT, clients>>

\* Utc::now(): the clock advances with every frame taken from upstream
Timestamps == 0..MaxFrames

now == framesIn

\* the programSubscribe request (solana_client.rs:20-28)
subscription ==
    [jsonrpc |-> "2.0", id |-> 1, method |-> "programSubscribe",
     params  |-> <<PUMP_FUN_PROGRAM_ID, [encoding |-> "jsonParsed"]>>]

Init ==
    /\ mainPc = "wait"
    /\ connPc = "connect"
    /\ connAbort = FALSE
    /\ txt = <<>>
    /\ liveUpstream = 0
    /\ outbound = <<>>
    /\ attempts = 0
    /\ lastFailure = "none"
    /\ waited = 0
    /\ framesIn = 0
    /\ textFrames = 0
    /\ sendLog = <<>>
    /\ subscribedConns = {}
    /\ srvPc = "spawned"
    /\ srvAbort = FALSE
    /\ hub = channel
    /\ CONNECTION_COUNT = 0
    /\ clients = <<>>

Running == mainPc # "done"

\* ---------------------------------------------------- Upstream Connector
\* where the loop goes after a failed connect: the Err arm sleeps
AfterConnectFailure_NoDelay == "connect"

AfterConnectFailure == "sleep"

\* where the loop goes after a failed subscription send: continue
AfterSubscriptionFailure_Read == "read"

AfterSubscriptionFailure == "connect"

\* where the loop goes when the while-let over read.next() ends
AfterReadLoop == "connect"

\* where the Text arm goes after sender.send: the result is discarded with
\* `let _ =`, Err (no receiver) included
AfterPublish_ErrBreaks(h) == IF h.rx_cnt = 0 THEN AfterReadLoop ELSE "read"

AfterPublish(h) == "read"

\* the connection halves go out of scope at the end of the Ok arm
ReleaseConnection_Leak(n) == n

ReleaseConnection(n) == n - 1

\* connect_async(&rpc_url) returns Ok
ConnectOk ==
    /\ Running /\ connPc = "connect" /\ attempts < MaxConnects
    /\ attempts' = attempts + 1
    /\ liveUpstream' = liveUpstream + 1
    /\ outbound' = <<>>
    /\ connPc' = "subscribe"
    /\ UNCHANGED <<mainPc, connAbort, txt, lastFailure, waited, framesIn,
                   textFrames, sendLog, subscribedConns, srvPc, srvAbort, hub,
                   CONNECTION_COUNT, clients>>

\* connect_async returns Err
ConnectFail ==
    /\ Running /\ connPc = "connect" /\ attempts < MaxConnects
    /\ attempts' = attempts + 1
    /\ lastFailure' = "connect"
    /\ waited' = 0
    /\ connPc' = AfterConnectFailure
    /\ UNCHANGED <<mainPc, connAbort, txt, liveUpstream, outbound, framesIn,
                   textFrames, sendLog, subscribedConns, srvPc, srvAbort, hub,
                   CONNECTION_COUNT, clients>>

\* tokio::time::sleep(5 s) completes
Sleep ==
    /\ Running /\ connPc = "sleep"
    /\ waited' = waited + RECONNECT_DELAY_SECS
    /\ connPc' = "connect"
    /\ UNCHANGED <<mainPc, connAbort, txt, liveUpstream, outbound, attempts,
                   lastFailure, framesIn, textFrames, sendLog, subscribedConns,
                   srvPc, srvAbort, hub, CONNECTION_COUNT, clients>>

\* write.send(subscription) returns Ok
SubscribeOk ==
    /\ Running /\ connPc = "subscribe"
    /\ outbound' = Append(outbound, subscription)
    /\ subscribedConns' = subscribedConns \cup {attempts}
    /\ connPc' = "read"
    /\ UNCHANGED <<mainPc, connAbort, txt, liveUpstream, attempts, lastFailure,
                   waited, framesIn, textFrames, sendLog, srvPc, srvAbort, hub,
                   CONNECTION_COUNT, clients>>

\* write.send(subscription) returns Err: continue
SubscribeFail ==
    /\ Running /\ connPc = "subscribe"
    /\ lastFailure' = "subscribe"
    /\ waited' = 0
    /\ liveUpstream' = ReleaseConnection(liveUpstream)
    /\ connPc' = AfterSubscriptionFailure
    /\ UNCHANGED <<mainPc, connAbort, txt, outbound, attempts, framesIn,
                   textFrames, sendLog, subscribedConns, srvPc, srvAbort, hub,
                   CONNECTION_COUNT, clients>>

\* read.next() yields Ok(Message::Text(t)), t one of texts
ReadTextFrom(texts) ==
    /\ Running /\ connPc = "read" /\ framesIn < MaxFrames
    /\ \E t \in texts : txt' = <<t>>
    /\ framesIn' = framesIn + 1
    /\ textFrames' = textFrames + 1
    /\ connPc' = "frame"
    /\ UNCHANGED <<mainPc, connAbort, liveUpstream, outbound, attempts,
                   lastFailure, waited, sendLog, subscribedConns, srvPc,
                   srvAbort, hub, CONNECTION_COUNT, clients>>

ReadText == ReadTextFrom(UpstreamTexts)

SendEntry(frame, payload, h) ==
    [conn |-> attempts, frame |-> frame, payload |-> payload,
     stored |-> h.rx_cnt > 0, pos |-> h.tail]

\* the Text arm: parse_event, then sender.send of its value or of the frame
HandleText ==
    /\ Running /\ connPc = "frame"
    /\ LET r == parse_event(txt[1], now)
             payload == IF r.tag = "some" THEN r.val ELSE RawText(txt[1])
       IN  IF r.tag = "panic"
             THEN /\ connPc' = "panicked"
                  /\ liveUpstream' = ReleaseConnection(liveUpstream)
                  /\ hub' = drop_tx(hub)
                  /\ sendLog' = sendLog
             ELSE /\ connPc' = AfterPublish(hub)
                  /\ liveUpstream' = liveUpstream
                  /\ hub' = send(hub, payload)
                  /\ sendLog' = Append(sendLog, SendEntry(txt[1], payload, hub))
    /\ txt' = <<>>
    /\ UNCHANGED <<mainPc, connAbort, outbound, attempts, lastFailure, waited,
                   framesIn, textFrames, subscribedConns, srvPc, srvAbort,
                   CONNECTION_COUNT, clients>>

\* read.next() yields Ok of a binary, ping, pong or close message
ReadNonText ==
    /\ Running /\ connPc = "read" /\ framesIn < MaxFrames
    /\ framesIn' = framesIn + 1
    /\ UNCHANGED <<mainPc, connPc, connAbort, txt, liveUpstream, outbound,
                   attempts, lastFailure, waited, textFrames, sendLog,
                   subscribedConns, srvPc, srvAbort, hub, CONNECTION_COUNT,
                   clients>>

\* read.next() yields Err: break
ReadError ==
    /\ Running /\ connPc = "read" /\ framesIn < MaxFrames
    /\ framesIn' = framesIn + 1
    /\ lastFailure' = "read"
    /\ waited' = 0
    /\ liveUpstream' = ReleaseConnection(liveUpstream)
    /\ connPc' = AfterReadLoop
    /\ UNCHANGED <<mainPc, connAbort, txt, outbound, attempts, textFrames,
                   sendLog, subscribedConns, srvPc, srvAbort, hub,
                   CONNECTION_COUNT, clients>>

\* read.next() yields None: the while-let ends
StreamEnd ==
    /\ Running /\ connPc = "read" /\ framesIn < MaxFrames
    /\ framesIn' = framesIn + 1
    /\ lastFailure' = "end"
    /\ waited' = 0
    /\ liveUpstream' = ReleaseConnection(liveUpstream)
    /\ connPc' = AfterReadLoop
    /\ UNCHANGED <<mainPc, connAbort, txt, outbound, attempts, textFrames,
                   sendLog, subscribedConns, srvPc, srvAbort, hub,
                   CONNECTION_COUNT, clients>>

ConnAwaiting == connPc \in {"connect", "sleep", "subscribe", "read"}

\* the aborted task is dropped at an await point
ConnCancelled ==
    /\ Running /\ connAbort /\ ConnAwaiting
    /\ connPc' = "cancelled"
    /\ liveUpstream' = IF connPc \in {"subscribe", "read"}
                         THEN ReleaseConnection(liveUpstream) ELSE liveUpstream
    /\ hub' = drop_tx(hub)
    /\ UNCHANGED <<mainPc, connAbort, txt, outbound, attempts, lastFailure,
                   waited, framesIn, textFrames, sendLog, subscribedConns,
                   srvPc, srvAbort, CONNECTION_COUNT, clients>>

\* ------------------------------------------------ Client Connection Manager
\* AtomicUsize::fetch_add(1) and fetch_sub(1): the new counter value
\* an accept that does not count the connection
fetch_add_skipped(n) == n

fetch_add(n) == n + 1

fetch_sub(n) == n - 1

\* the session of one accepted connection
ClientSession(id, h) ==
    [connection_id |-> id,
     pc            |-> "handshake", \* "handshake", "welcome", "recv", "send", "done"
     subscribedAt  |-> h.tail,      \* tail of the hub when rx was created
     sendsBefore   |-> Len(sendLog),\* calls of sender.send before the accept
     next          |-> resubscribe(h),
     message       |-> <<>>,        \* the message being sent (option)
     message_count |-> 0,
     socket        |-> <<>>,        \* frames written to the client socket
     exit          |-> "none"]      \* why the task ended

\* the ws task is polled for the first time: sender.subscribe() (main.rs:34)
ServerStart ==
    /\ Running /\ srvPc = "spawned"
    /\ hub' = add_rx(hub)
    /\ srvPc' = "bind"
    /\ UNCHANGED <<mainPc, connAbort, connVars, srvAbort, CONNECTION_COUNT,
                   clients>>

\* TcpListener::bind returns Ok
BindOk ==
    /\ Running /\ srvPc = "bind"
    /\ srvPc' = "accept"
    /\ UNCHANGED <<mainPc, connAbort, connVars, srvAbort, hub,
                   CONNECTION_COUNT, clients>>

\* TcpListener::bind returns Err: start_ws_server returns, the task ends
BindFail ==
    /\ Running /\ srvPc = "bind"
    /\ srvPc' = "returned"
    /\ hub' = drop_tx(drop_rx(hub))
    /\ UNCHANGED <<mainPc, connAbort, connVars, srvAbort, CONNECTION_COUNT,
                   clients>>

\* listener.accept() returns Ok: id, resubscribe, spawn
AcceptUpTo(limit) ==
    /\ Running /\ srvPc = "accept" /\ Len(clients) < limit
    /\ CONNECTION_COUNT' = fetch_add(CONNECTION_COUNT)
    /\ clients' = Append(clients, ClientSession(CONNECTION_COUNT, hub))
    /\ hub' = add_rx(hub)
    /\ UNCHANGED <<mainPc, connAbort, connVars, srvPc, srvAbort>>

Accept == AcceptUpTo(MaxAccepts)

\* the aborted accept-loop task is dropped at an await point
ServerCancelled ==
    /\ Running /\ srvAbort /\ srvPc \in {"spawned", "bind", "accept"}
    /\ srvPc' = "cancelled"
    /\ hub' = drop_tx(IF srvPc = "spawned" THEN hub ELSE drop_rx(hub))
    /\ UNCHANGED <<mainPc, connAbort, connVars, srvAbort, CONNECTION_COUNT,
                   clients>>

\* the frames a client socket carries
WelcomeFrame(id) ==
    [type |-> "connection_established", connection_id |-> id,
     message |-> "Connected to Pump.fun WebSocket Service"]

RelayFrame(m) == [type |-> "relay", pos |-> m.pos, text |-> m.val]

\* a task that subscribes by itself once the handshake is done
TaskReceiver_Fresh(h, rx) == resubscribe(h)

\* the receiver the task reads from: the rx moved into it at the spawn
TaskReceiver(h, rx) == rx

\* accept_async returns Ok
HandshakeOk(i) ==
    /\ Running /\ clients[i].pc = "handshake"
    /\ clients' = [clients EXCEPT ![i].pc = "welcome",
                                  ![i].next = TaskReceiver(hub, @)]
    /\ UNCHANGED <<mainPc, connAbort, connVars, srvPc, srvAbort, hub,
                   CONNECTION_COUNT>>

\* accept_async returns Err: return
HandshakeFail(i) ==
    /\ Running /\ clients[i].pc = "handshake"
    /\ clients' = [clients EXCEPT ![i].pc = "done", ![i].exit = "handshake"]
    /\ hub' = drop_rx(hub)
    /\ UNCHANGED <<mainPc, connAbort, connVars, srvPc, srvAbort,
                   CONNECTION_COUNT>>

\* a task that returns when the welcome frame cannot be sent
AfterWelcome_ErrReturns(ok) == IF ok THEN "recv" ELSE "done"

\* where the task goes after the welcome send: the `if let Err` only warns
AfterWelcome(ok) == "recv"

\* write.send(welcome_msg): a failure is logged and nothing else
Welcome(i, ok) ==
    /\ Running /\ clients[i].pc = "welcome"
    /\ clients' = [clients EXCEPT
         ![i].pc = AfterWelcome(ok),
         ![i].socket = IF ok THEN Append(@, WelcomeFrame(clients[i].connection_id))
                       ELSE @]
    /\ UNCHANGED <<mainPc, connAbort, connVars, srvPc, srvAbort, hub,
                   CONNECTION_COUNT>>

\* the end of handle_client_connection after the loop: fetch_sub and the log
\* line; rx goes out of scope
ExitLoop(i, why) ==
    /\ clients' = [clients EXCEPT ![i].pc = "done", ![i].exit = why,
                                  ![i].message = <<>>]
    /\ CONNECTION_COUNT' = fetch_sub(CONNECTION_COUNT)
    /\ hub' = drop_rx(hub)

\* rx.recv() completes: Ok(message) enters the loop body, Err ends the loop
Recv(i) ==
    /\ Running /\ clients[i].pc = "recv"
    /\ LET r == recv(hub, clients[i].next)
       IN  /\ r.tag # "empty"
           /\ IF r.tag = "ok"
                THEN /\ clients' = [clients EXCEPT
                          ![i].pc = "send",
                          ![i].next = r.next,
                          ![i].message = <<[pos |-> r.pos, val |-> r.val]>>,
                          ![i].message_count = @ + 1]
                     /\ UNCHANGED <<hub, CONNECTION_COUNT>>
                ELSE ExitLoop(i, r.tag)
    /\ UNCHANGED <<mainPc, connAbort, connVars, srvPc, srvAbort>>

\* write.send(message) returns Ok
SendOk(i) ==
    /\ Running /\ clients[i].pc = "send"
    /\ clients' = [clients EXCEPT
         ![i].pc = "recv",
         ![i].socket = Append(@, RelayFrame(clients[i].message[1])),
         ![i].message = <<>>]
    /\ UNCHANGED <<mainPc, connAbort, connVars, srvPc, srvAbort, hub,
                   CONNECTION_COUNT>>

\* write.send(message) returns Err: break
SendFail(i) ==
    /\ Running /\ clients[i].pc = "send"
    /\ ExitLoop(i, "send")
    /\ UNCHANGED <<mainPc, connAbort, connVars, srvPc, srvAbort>>

\* -------------------------------------------------------------------- main
\* signal::ctrl_c() completes (either arm of the match), then
\* solana_handle.abort() and ws_handle.abort()
Shutdown ==
    /\ mainPc = "wait"
    /\ connAbort' = TRUE
    /\ srvAbort' = TRUE
    /\ mainPc' = "join"
    /\ UNCHANGED <<connVars, srvPc, hub, CONNECTION_COUNT, clients>>

\* a main that returns without awaiting the handles
Joined_NoWait(c, s) == TRUE

\* tokio::join!(solana_handle, ws_handle) is ready: both tasks have ended
Joined(c, s) ==
    /\ c \in {"panicked", "cancelled"}
    /\ s \in {"returned", "cancelled"}

\* tokio::join! of both handles completes and main returns
Join ==
    /\ mainPc = "join"
    /\ Joined(connPc, srvPc)
    /\ mainPc' = "done"
    /\ UNCHANGED <<connAbort, connVars, srvPc, srvAbort, hub,
                   CONNECTION_COUNT, clients>>

\* the steps of the connector, of the accept loop short of accepting, and
\* of main
UpstreamNext ==
    \/ ConnectOk \/ ConnectFail \/ Sleep \/ SubscribeOk \/ SubscribeFail
    \/ ReadText \/ HandleText \/ ReadNonText \/ ReadError \/ StreamEnd
    \/ ConnCancelled
    \/ ServerStart \/ BindOk \/ BindFail \/ ServerCancelled
    \/ Shutdown \/ Join

Next ==
    \/ UpstreamNext
    \/ Accept
    \/ \E i \in 1..Len(clients) :
         \/ HandshakeOk(i) \/ HandshakeFail(i)
         \/ \E ok \in BOOLEAN : Welcome(i, ok)
         \/ Recv(i) \/ SendOk(i) \/ SendFail(i)

Spec == Init /\ [][Next]_vars

\* --------------------------------------------------- upstream specification
\* The service while no client connects: the connector against every
\* upstream outcome, with the accept loop bound or not and with shutdown.
UpstreamSpec == Init /\ [][UpstreamNext]_vars

\* --------------------------------------------------- fan-out specification
\* The relay in its steady state: the connector is subscribed and in its read
\* loop, the accept loop is listening.  The upstream keeps delivering text
\* frames, more clients connect than in Spec, and their sockets take the
\* welcome frame.
FanInit ==
    /\ mainPc = "wait"
    /\ connPc = "read"
    /\ connAbort = FALSE
    /\ txt = <<>>
    /\ liveUpstream = 1
    /\ outbound = <<subscription>>
    /\ attempts = 1
    /\ lastFailure = "none"
    /\ waited = 0
    /\ framesIn = 0
    /\ textFrames = 0
    /\ sendLog = <<>>
    /\ subscribedConns = {1}
    /\ srvPc = "accept"
    /\ srvAbort = FALSE
    /\ hub = add_rx(channel)
    /\ CONNECTION_COUNT = 0
    /\ clients = <<>>

FanAccept == AcceptUpTo(MaxFanAccepts)

\* the text frames the upstream sends in the fan-out specification; the
\* events made from them differ in their timestamps
FanTexts == {FrameValid}

FanReadText == ReadTextFrom(FanTexts)

FanNext ==
    \/ FanReadText \/ HandleText \/ FanAccept
    \/ \E i \in 1..Len(clients) :
         \/ HandshakeOk(i) \/ HandshakeFail(i)
         \/ Welcome(i, TRUE)
         \/ Recv(i) \/ SendOk(i) \/ SendFail(i)

FanSpec == FanInit /\ [][FanNext]_vars

\* FanInit is a state of Spec
FanInitReached ==
    /\ connPc = "read" /\ attempts = 1 /\ framesIn = 0 /\ srvPc = "accept"
    /\ hub = add_rx(channel) /\ clients = <<>> /\ mainPc = "wait"
    /\ outbound = <<subscription>> /\ subscribedConns = {1} /\ liveUpstream = 1
    /\ lastFailure = "none" /\ waited = 0 /\ sendLog = <<>> /\ txt = <<>>
    /\ ~connAbort /\ ~srvAbort /\ CONNECTION_COUNT = 0 /\ textFrames = 0

\* ------------------------------------------------------ relay specification
\* The service from its start while the upstream stays up and no interrupt
\* arrives: the connector connects, subscribes and publishes, before and
\* after the accept loop holds its receiver; clients connect, fail the
\* handshake, miss the welcome frame, lag and fail sends.  The upstream
\* sends the frames of the fan-out specification.
RelayNext ==
    \/ ConnectOk \/ SubscribeOk \/ FanReadText \/ HandleText
    \/ ServerStart \/ BindOk \/ Accept
    \/ \E i \in 1..Len(clients) :
         \/ HandshakeOk(i) \/ HandshakeFail(i)
         \/ \E ok \in BOOLEAN : Welcome(i, ok)
         \/ Recv(i) \/ SendOk(i) \/ SendFail(i)

RelaySpec == Init /\ [][RelayNext]_vars

\* --------------------------------------------------- shutdown specification
\* The relay in its steady state when the interrupt arrives: frames keep
\* coming and clients keep connecting until each task is dropped at an await
\* point; main joins both handles and returns.
ShutdownNext ==
    \/ FanReadText \/ HandleText \/ ConnCancelled
    \/ Accept \/ ServerCancelled
    \/ \E i \in 1..Len(clients) :
         \/ HandshakeOk(i) \/ HandshakeFail(i)
         \/ Welcome(i, TRUE)
         \/ Recv(i) \/ SendOk(i) \/ SendFail(i)
    \/ Shutdown \/ Join

ShutdownSpec == FanInit /\ [][ShutdownNext]_vars

\* -------------------------------------------------- handshake specification
\* The relay in its steady state with an upstream that delivers frames only
\* while every connected client is still in its WebSocket handshake, and
\* clients that complete the handshake only when the connector holds no
\* frame: each message a client finds in the hub was published during its
\* handshake.
InHandshake ==
    /\ \E i \in 1..Len(clients) : clients[i].pc = "handshake"
    /\ \A i \in 1..Len(clients) : clients[i].pc \in {"handshake", "done"}

HandshakeReadText == InHandshake /\ FanReadText

HandshakeDone(i) == connPc # "frame" /\ HandshakeOk(i)

HandshakeNext ==
    \/ HandshakeReadText \/ HandleText \/ FanAccept
    \/ \E i \in 1..Len(clients) :
         \/ HandshakeDone(i) \/ HandshakeFail(i)
         \/ \E ok \in BOOLEAN : Welcome(i, ok)
         \/ Recv(i) \/ SendOk(i) \/ SendFail(i)

HandshakeSpec == FanInit /\ [][HandshakeNext]_vars

\* ------------------------------------------------ normalizer specification
\* The connector has just taken one text frame from upstream; the frame is
\* any combination of the parts parse_event looks at.  The one step is the
\* Text arm applied to it.
Key8    == <<"A","B","C","D","E","F","G","H">>
KeyWide == <<"A","B","C","D","E","F","G","é","1">>

ParseMethods == {<<>>, <<"accountNotification">>, <<"programNotification">>}
ParsePubkeys == {<<>>, <<Key12>>, <<Key8>>, <<KeyShort>>, <<KeyWide>>}
ParseSlots   == {<<>>, <<-1>>, <<0>>, <<100>>}
ParseOwners  == {<<>>, <<JOther>>, <<JString("11111111111111111111111111111111")>>,
                 <<JString(PUMP_FUN_PROGRAM_ID)>>}
ParseAccounts == {<<>>} \cup {<<Account(o)>> : o \in ParseOwners}

ParseFrames ==
    {FrameNotJson} \cup
    {Frame(TRUE, m, k, sl, a) :
        m \in ParseMethods, k \in ParsePubkeys, sl \in ParseSlots,
        a \in ParseAccounts}

ParseInit ==
    /\ mainPc = "wait"
    /\ connPc = "frame"
    /\ connAbort = FALSE
    /\ txt \in {<<f>> : f \in ParseFrames}
    /\ liveUpstream = 1
    /\ outbound = <<subscription>>
    /\ attempts = 1
    /\ lastFailure = "none"
    /\ waited = 0
    /\ framesIn = 1
    /\ textFrames = 1
    /\ sendLog = <<>>
    /\ subscribedConns = {1}
    /\ srvPc = "accept"
    /\ srvAbort = FALSE
    /\ hub = add_rx(channel)
    /\ CONNECTION_COUNT = 0
    /\ clients = <<>>

ParseNext == HandleText

ParseSpec == ParseInit /\ [][ParseNext]_vars

\* ------------------------------------------------------------- observation
Clients == 1..Len(clients)

\* the relayed hub messages written to client i's socket, in order
Relayed(i) == SelectSeq(clients[i].socket, LAMBDA f : f.type = "relay")

\* hub positions client i was sent or is being sent, in order
Taken(i) ==
    [k \in 1..Len(Relayed(i)) |-> Relayed(i)[k].pos]
      \o [k \in 1..Len(clients[i].message) |-> clients[i].message[k].pos]

\* positions lo..hi-1 in order
Range(lo, hi) == [k \in 1..(IF hi > lo THEN hi - lo ELSE 0) |-> lo + k - 1]

\* the calls of sender.send that stored a message on the hub
Stored == {k \in 1..Len(sendLog) : sendLog[k].stored}

Backlog(i) == hub.tail - clients[i].next

\* frames are sent in publish order, none twice, each as it was published
InOrder(i) ==
    /\ \A k \in 1..(Len(Taken(i)) - 1) : Taken(i)[k] < Taken(i)[k + 1]
    /\ \A k \in 1..Len(Relayed(i)) :
         \E n \in Stored : /\ sendLog[n].pos = Relayed(i)[k].pos
                           /\ sendLog[n].payload = Relayed(i)[k].text

\* every message published since the subscription was sent to client i, is
\* being sent, or waits in the hub for it
Buffered(p) == hub.buffer[SlotIdx(p)].pos = p

NothingMissed(i) ==
    Taken(i) \o SelectSeq(Range(clients[i].next, hub.tail), Buffered)
        = Range(clients[i].subscribedAt, hub.tail)

\* C1 as claimed: every client in its delivery loop is sent every message
\* published since it subscribed exactly once and in publish order, also when
\* the producer is more than the capacity ahead of it
C1_EveryMessageDelivered ==
    \A i \in Clients :
        clients[i].pc # "done" =>
            /\ InOrder(i)
            /\ NothingMissed(i)

\* C1 amended: every client is sent hub messages in publish order, each at
\* most once and unchanged; a client still in its task whose backlog is
\* within the capacity has missed none of the messages published since it
\* subscribed
C1_FanOut ==
    \A i \in Clients :
        /\ InOrder(i)
        /\ (clients[i].pc # "done" /\ Backlog(i) <= HubCapacity)
              => NothingMissed(i)

\* two clients have each been sent the same two messages
C1_Witness ==
    \E i, j \in Clients :
        /\ i < j
        /\ Len(Relayed(i)) >= 2
        /\ Relayed(i) = Relayed(j)

\* C2 as claimed: a client whose backlog exceeds the capacity is not ended by
\* its next receive; it stays in the delivery loop
C2_LagKeepsLoop ==
    [][\A i \in Clients :
          (clients[i].pc = "recv" /\ recv(hub, clients[i].next).tag = "lagged")
              => clients'[i].pc # "done"]_vars

\* C3 as claimed: each accept assigns a connection_id greater than every
\* connection_id assigned before
C3_IdsIncrease ==
    \A i, j \in Clients :
        i < j => clients[i].connection_id < clients[j].connection_id

\* C4 as claimed: the counter equals the number of accepted connections whose
\* delivery task has not exited
C4_CountIsLive ==
    CONNECTION_COUNT = Cardinality({i \in Clients : clients[i].pc # "done"})

\* C5 as claimed: before shutdown the connector task has not terminated,
\* whatever the upstream sent
C5_ConnectorNeverStops ==
    mainPc = "wait" => connPc \notin {"panicked", "cancelled"}

\* the value sender.send must be given for a text frame
Normalized(frame, payload) ==
    \E t \in Timestamps :
        LET r == parse_event(frame, t)
        IN  \/ r.tag = "some" /\ payload = r.val
            \/ r.tag = "none" /\ payload = RawText(frame)

\* C6 as claimed: every text frame taken from upstream has caused exactly one
\* sender.send, of the normalizer's value or else of the frame itself
C6_OnePublishPerText ==
    /\ connPc # "frame" => Len(sendLog) = textFrames
    /\ \A k \in 1..Len(sendLog) : Normalized(sendLog[k].frame, sendLog[k].payload)

\* C7: a client is only sent messages published after its subscription was
\* created at accept
C7_NoReplay ==
    \A i \in Clients :
        \A k \in 1..Len(Taken(i)) :
            /\ Taken(i)[k] >= clients[i].subscribedAt
            /\ \A n \in Stored :
                 sendLog[n].pos = Taken(i)[k] => n > clients[i].sendsBefore

\* a client accepted while the hub held earlier messages has been sent one
C7_Witness ==
    \E i \in Clients :
        /\ clients[i].subscribedAt > 0
        /\ clients[i].sendsBefore > 0
        /\ Len(Relayed(i)) > 0

C9_SingleUpstream ==
    /\ liveUpstream <= 1
    /\ connPc \in {"connect", "sleep"} => liveUpstream = 0

\* the connector is on its second connection
C9_Witness ==
    /\ attempts = 2 /\ liveUpstream = 1
    /\ lastFailure \in {"subscribe", "read", "end"}

\* C10: a connection in the read loop carries exactly one programSubscribe
\* request for the pump.fun program id, sent before any frame is read from
\* it, and nothing is published from a connection that did not send it
C10_SubscribeFirst ==
    /\ [](/\ Len(outbound) <= 1
          /\ connPc \in {"read", "frame"} =>
                /\ outbound = <<subscription>>
                /\ outbound[1].method = "programSubscribe"
                /\ outbound[1].params[1] = PUMP_FUN_PROGRAM_ID
          /\ \A k \in 1..Len(sendLog) : sendLog[k].conn \in subscribedConns)
    /\ [][framesIn' # framesIn => outbound = <<subscription>>]_vars

\* a frame was published from the second connection, after one that failed
\* its subscription send
C10_Witness ==
    /\ lastFailure = "subscribe"
    /\ \E k \in 1..Len(sendLog) : sendLog[k].conn = 2

\* ---------------------------------------------------------------- C11, C12
IsNotification(f) == f.json /\ f.method = <<"programNotification">>

OwnerOf(f) ==
    IF f.account = <<>> \/ f.account[1].owner = <<>> THEN <<>>
    ELSE as_str(f.account[1].owner[1])

\* the frames C11 says are rejected
Rejected(f) ==
    \/ ~f.json
    \/ f.json /\ f.method # <<"programNotification">>
    \/ IsNotification(f) /\ (f.pubkey = <<>> \/ f.slot = <<>>)
    \/ IsNotification(f) /\ OwnerOf(f) # <<PUMP_FUN_PROGRAM_ID>>

\* the frames C12 says are normalized
Accepted(f) ==
    /\ IsNotification(f)
    /\ OwnerOf(f) = <<PUMP_FUN_PROGRAM_ID>>
    /\ f.pubkey # <<>>
    /\ AsU64(f.slot) # <<>>

\* the Text arm handled the frame and gave sender.send this payload
Published(p) ==
    /\ connPc' = "read"
    /\ Len(sendLog') = Len(sendLog) + 1
    /\ sendLog'[Len(sendLog')].payload = p

FirstChars(s, n) == SubSeq(s, 1, IF Len(s) < n THEN Len(s) ELSE n)

\* C11 as claimed: for a frame that is not JSON, has another method, lacks
\* the pubkey or the slot, or whose account owner is absent or is not the
\* pump.fun program id, parse_event returns None (the connector publishes
\* the raw frame)
C11_Rejections ==
    [][(connPc = "frame" /\ Rejected(txt[1])) => Published(RawText(txt[1]))]_vars

\* C12 as claimed: for a programNotification frame with the pump.fun owner,
\* a string pubkey and an unsigned slot, parse_event returns the event with
\* mint_address the pubkey, event_type token_created and transaction_signature
\* the first 8 characters of the pubkey, "_" and the slot
C12_Acceptance ==
    [][(connPc = "frame" /\ Accepted(txt[1])) =>
          /\ connPc' = "read"
          /\ Len(sendLog') = Len(sendLog) + 1
          /\ LET p == sendLog'[Len(sendLog')].payload
             IN  /\ p.kind = "event"
                 /\ p.body.token.mint_address = txt[1].pubkey[1]
                 /\ p.body.event_type = "token_created"
                 /\ p.body.transaction_signature =
                        FirstChars(txt[1].pubkey[1], SIG_PREFIX_LEN) \o <<"_">>
                            \o U64ToString(txt[1].slot[1])]_vars

\* C13: a publish always completes and leaves the connector in its read loop
\* on the same upstream connection, with the hub open, whatever the
\* receivers are doing (none subscribed, one a full ring behind, one gone)
PublishReady ==
    /\ Running /\ connPc = "frame" /\ parse_event(txt[1], now).tag # "panic"

C13_NonBlockingProducer ==
    [][/\ PublishReady => ENABLED HandleText
       /\ Len(sendLog') > Len(sendLog) =>
             /\ connPc = "frame" /\ connPc' = "read"
             /\ liveUpstream' = liveUpstream
             /\ attempts' = attempts
             /\ subscribedConns' = subscribedConns
             /\ hub'.tail = hub.tail + (IF hub.rx_cnt > 0 THEN 1 ELSE 0)
             /\ clients' = clients]_vars

\* a message was published while a live client was a full ring behind
C13_Witness ==
    /\ connPc = "read" /\ liveUpstream = 1
    /\ \E i \in Clients : clients[i].pc # "done" /\ Backlog(i) > HubCapacity

\* the welcome frames on client i's socket
Welcomes(i) ==
    {k \in 1..Len(clients[i].socket) :
        clients[i].socket[k].type = "connection_established"}

\* C14: on every client socket a relayed hub message is preceded by the
\* welcome frame of that connection, and the socket carries the welcome frame
\* at most once
C14_WelcomeFirst ==
    \A i \in Clients :
      /\ Cardinality(Welcomes(i)) <= 1
      /\ \A k \in Welcomes(i) :
            clients[i].socket[k] = WelcomeFrame(clients[i].connection_id)
      /\ \A k \in 1..Len(clients[i].socket) :
            clients[i].socket[k].type = "relay" => \E w \in Welcomes(i) : w < k

\* client i's task ends in this step
Exits(i) == clients[i].pc # "done" /\ clients'[i].pc = "done"

\* C15: the step in which one client's task ends (handshake failure, send
\* failure, lag) leaves every other client's session and subscription, the
\* messages buffered in the hub, the accept loop and the connector as they
\* were; the hub loses that one receiver and no other, and still stores
\* what is published next
C15_FailureIsolated ==
    [][\A i \in Clients : Exits(i) =>
         /\ clients[i].exit = "none"
         /\ clients'[i].exit \in {"handshake", "send", "lagged", "closed"}
         /\ Len(clients') = Len(clients)
         /\ \A j \in Clients \ {i} : clients'[j] = clients[j]
         /\ clients'[i].socket = clients[i].socket
         /\ hub' = [hub EXCEPT !.rx_cnt = hub.rx_cnt - 1]
         /\ hub'.rx_cnt > 0
         /\ CONNECTION_COUNT' = IF clients'[i].exit = "handshake"
                                  THEN CONNECTION_COUNT
                                  ELSE fetch_sub(CONNECTION_COUNT)
         /\ UNCHANGED <<mainPc, connAbort, connVars, srvPc, srvAbort>>]_vars

\* one client's loop ended on a send failure or on lag while another client
\* was subscribed, and the other has been sent a message the first never took
C15_Witness ==
    \E i, j \in Clients :
      /\ i # j
      /\ clients[i].exit \in {"send", "lagged"}
      /\ clients[j].pc # "done"
      /\ Len(Relayed(j)) > 0
      /\ Relayed(j)[Len(Relayed(j))].pos >= clients[i].next

C17_FinalCount ==
    \A i \in Clients :
      (clients[i].pc = "done" /\ clients[i].exit # "handshake") =>
         clients[i].message_count = Len(Relayed(i))

\* fetch_add calls so far: one per accepted connection
Increments == Len(clients)

\* fetch_sub calls so far: one per task that left its delivery loop
Decrements ==
    Cardinality({i \in Clients :
                    clients[i].pc = "done" /\ clients[i].exit # "handshake"})

\* C18: under every interleaving of accepts and task exits the decrements
\* applied never exceed the increments applied before them: the counter,
\* followed here in unbounded integers, is their difference and is never
\* negative, so the unsigned counter never wraps
C18_NoUnderflow ==
    /\ Decrements <= Increments
    /\ CONNECTION_COUNT = Increments - Decrements
    /\ CONNECTION_COUNT >= 0

\* two tasks have left their loops and the counter is back at zero
C18_Witness ==
    /\ CONNECTION_COUNT = 0
    /\ \E i, j \in Clients :
         /\ i < j
         /\ clients[i].exit \in {"send", "lagged"}
         /\ clients[j].exit \in {"send", "lagged"}

WelcomeFailed(i) ==
    /\ Welcomes(i) = {}
    /\ clients[i].pc \in {"recv", "send"}

\* C20: the welcome step, failed or not, takes the task into the delivery
\* loop and leaves the counter and the hub alone; a task whose welcome send
\* failed ends only on a failed send of a relayed message or on a failed
\* receive, the first failed send ends it, and the counter is decremented in
\* that step and still counts the task until then
C20_WelcomeFailureNotTerminal ==
    [][\A i \in Clients :
         /\ (clients[i].pc = "welcome" /\ clients'[i] # clients[i]) =>
               /\ clients'[i].pc = "recv" /\ clients'[i].exit = "none"
               /\ CONNECTION_COUNT' = CONNECTION_COUNT
               /\ hub' = hub
         /\ WelcomeFailed(i) =>
               /\ clients'[i].pc = "done" =>
                     /\ \/ clients[i].pc = "send" /\ clients'[i].exit = "send"
                        \/ /\ clients[i].pc = "recv"
                           /\ clients'[i].exit \in {"lagged", "closed"}
                     /\ CONNECTION_COUNT' = fetch_sub(CONNECTION_COUNT)
               /\ clients'[i].pc # "done" =>
                     CONNECTION_COUNT' >=
                        Cardinality({j \in Clients : clients'[j].pc # "done"})
               /\ ( /\ clients[i].pc = "send" /\ clients'[i] # clients[i]
                    /\ clients'[i].socket = clients[i].socket ) =>
                     clients'[i].pc = "done"]_vars

\* a client that never got the welcome frame was sent a relayed message and
\* left on a later failed send; the counter was decremented then
C20_Witness ==
    \E i \in Clients :
      /\ Welcomes(i) = {}
      /\ Len(Relayed(i)) > 0
      /\ clients[i].exit = "send"
      /\ CONNECTION_COUNT = 0
====
